---- MODULE Spec2Model ----
(***************************************************************************)
(* Margolus block cellular automaton with the "sand" rule table            *)
(* (src/Source.cpp).  The engine is struct Margolus: a toroidal grid of    *)
(* w*h integer cells, a partition phase `offset`, and an ordered rule      *)
(* table; step() rewrites every 2x2 block of the current partition.        *)
(*                                                                         *)
(* Blocks are 4-tuples in the order top-left, top-right, bottom-left,      *)
(* bottom-right; slot i of the C++ std::array is slot i+1 of the tuple.    *)
(* `cells` is the std::vector, a function on 0 .. w*h-1 (row-major).       *)
(***************************************************************************)
EXTENDS Integers, Sequences, FiniteSets, TLC

VARIABLES
    w, h,      \* Margolus::w, Margolus::h
    cells,     \* Margolus::cells
    offset,    \* Margolus::offset
    built,     \* TRUE iff the constructor returned an object
    nsteps,    \* history: number of step() calls so far
    nwrites,   \* history: number of writes through at() so far
    pre,       \* history: the cells the last step() or clear() started from (else = cells)
    prephase,  \* history: the phase the last step() started in (else = offset)
    op,        \* history: name of the last operation
    probe      \* history: raw (x, y) of the last probed at() call, else << >>

vars == <<w, h, cells, offset, built, nsteps, nwrites, pre, prephase, op, probe>>

-----------------------------------------------------------------------------
(* Bounds of the model *)

MaxSteps == 3      \* cap on the step() counter
MaxWrites == 2     \* cap on the number of writes through at()
MaxProbes == 1     \* cap on the number of probed at() calls
MaxCoord == 4      \* probed at() coordinates range over -MaxCoord .. MaxCoord
MaxDim == 3        \* probed grids have 1 .. MaxDim columns and rows

\* Constructor arguments (W, H) tried by the main specification.
CtorArgs == { <<2, 2>>, <<4, 4>>, <<0, 2>>, <<-2, -2>>, <<-2, 2>> }

\* brush_state values 0..3 (empty, sand, ground, source)
States == 0 .. 3

\* cell values of the exhaustive small-grid specification: the four states
\* plus two out-of-domain values
AnyValues == States \cup { -1, 7 }

\* brush states painted in the main specification (sand, ground, source)
PaintStates == { 1, 2, 3 }

\* rows the brush paints in the main specification (the two top rows)
PaintRows == { 0, 1 }

\* fill probabilities in thousandths: 0.09 (main), 0.5
FillProbs == { 90, 500 }

-----------------------------------------------------------------------------
(* Rule matching *)

\* -1 in a pattern or template: "any value" / "copy the input"
WILD == -1

\* variant: the block is returned as it is
mirror_h_identity(b) == b

\* variant: a quarter turn of the block instead of a mirror image
mirror_h_rotate(b) == << b[3], b[1], b[4], b[2] >>

mirror_h(b) == << b[2], b[1], b[4], b[3] >>

\* variant: the loop returns after its first slot
match_pattern_first_slot(rule_pat, b) ==
    rule_pat[1] = WILD \/ rule_pat[1] = b[1]

match_pattern(rule_pat, b) ==
    \A i \in 1 .. 4 : rule_pat[i] = WILD \/ rule_pat[i] = b[i]

\* variant: the template is written out without substitution
apply_output_template_raw(out_tpl, in) == out_tpl

apply_output_template(out_tpl, in) ==
    [ i \in 1 .. 4 |-> IF out_tpl[i] = WILD THEN in[i] ELSE out_tpl[i] ]

Rule(in, out, refl) == [ in |-> in, out |-> out, horizontal_reflection |-> refl ]

\* variant: the second rule writes 0 where it should copy a and b
build_sand_rules_no_copy ==
    << Rule(<<1, 1, 0, 0>>,       <<0, 0, 1, 1>>,       TRUE),
       Rule(<<1, WILD, 0, WILD>>, <<0, 0, 1, 0>>,       TRUE),
       Rule(<<1, 0, WILD, 0>>,    <<0, 0, WILD, 1>>,    TRUE),
       Rule(<<3, WILD, 0, WILD>>, <<3, WILD, 1, WILD>>, TRUE) >>

\* variant: the third rule leaves the sand in the top-left slot as well
build_sand_rules_dup ==
    << Rule(<<1, 1, 0, 0>>,       <<0, 0, 1, 1>>,       TRUE),
       Rule(<<1, WILD, 0, WILD>>, <<0, WILD, 1, WILD>>, TRUE),
       Rule(<<1, 0, WILD, 0>>,    <<1, 0, WILD, 1>>,    TRUE),
       Rule(<<3, WILD, 0, WILD>>, <<3, WILD, 1, WILD>>, TRUE) >>

\* variant: the third rule pushed without its reflection flag
build_sand_rules_unmirrored ==
    << Rule(<<1, 1, 0, 0>>,       <<0, 0, 1, 1>>,       TRUE),
       Rule(<<1, WILD, 0, WILD>>, <<0, WILD, 1, WILD>>, TRUE),
       Rule(<<1, 0, WILD, 0>>,    <<0, 0, WILD, 1>>,    FALSE),
       Rule(<<3, WILD, 0, WILD>>, <<3, WILD, 1, WILD>>, TRUE) >>

\* variant: the second rule's pattern has a wildcard for the cell below
build_sand_rules_crush ==
    << Rule(<<1, 1, 0, 0>>,          <<0, 0, 1, 1>>,       TRUE),
       Rule(<<1, WILD, WILD, WILD>>, <<0, WILD, 1, WILD>>, TRUE),
       Rule(<<1, 0, WILD, 0>>,       <<0, 0, WILD, 1>>,    TRUE),
       Rule(<<3, WILD, 0, WILD>>,    <<3, WILD, 1, WILD>>, TRUE) >>

\* variant: the two first rules pushed in the other order
build_sand_rules_reordered ==
    << Rule(<<1, WILD, 0, WILD>>, <<0, WILD, 1, WILD>>, TRUE),
       Rule(<<1, 1, 0, 0>>,       <<0, 0, 1, 1>>,       TRUE),
       Rule(<<1, 0, WILD, 0>>,    <<0, 0, WILD, 1>>,    TRUE),
       Rule(<<3, WILD, 0, WILD>>, <<3, WILD, 1, WILD>>, TRUE) >>

build_sand_rules ==
    << Rule(<<1, 1, 0, 0>>,       <<0, 0, 1, 1>>,       TRUE),
       Rule(<<1, WILD, 0, WILD>>, <<0, WILD, 1, WILD>>, TRUE),
       Rule(<<1, 0, WILD, 0>>,    <<0, 0, WILD, 1>>,    TRUE),
       Rule(<<3, WILD, 0, WILD>>, <<3, WILD, 1, WILD>>, TRUE) >>

\* Margolus::rules, set once by the constructor
rules == build_sand_rules

-----------------------------------------------------------------------------
(* Toroidal indexing *)

Abs(a) == IF a < 0 THEN -a ELSE a

\* C++ a % b: the quotient truncates toward zero, so the sign follows a
CRem(a, b) == IF a >= 0 THEN a % Abs(b) ELSE -((-a) % Abs(b))

\* variant: the raw remainder, without the "+ w) % w" normalisation
AtIndex_raw(x, y) == CRem(y, h) * w + CRem(x, w)

\* index into cells computed by at(x, y)
AtIndex(x, y) ==
    LET x1 == CRem(CRem(x, w) + w, w)
        y1 == CRem(CRem(y, h) + h, h)
    IN  y1 * w + x1

at(x, y) == cells[AtIndex(x, y)]

-----------------------------------------------------------------------------
(* step() *)

\* variant: all direct matches are tried before any mirrored match
RECURSIVE TryMirroredOnly(_, _)
TryMirroredOnly(b, k) ==
    IF k > Len(rules) THEN [ applied |-> FALSE, out |-> b ]
    ELSE IF rules[k].horizontal_reflection /\ match_pattern(rules[k].in, mirror_h(b))
    THEN [ applied |-> TRUE,
           out |-> mirror_h(apply_output_template(rules[k].out, mirror_h(b))) ]
    ELSE TryMirroredOnly(b, k + 1)

RECURSIVE TryRules_DirectFirst(_, _)
TryRules_DirectFirst(b, k) ==
    IF k > Len(rules) THEN TryMirroredOnly(b, 1)
    ELSE IF match_pattern(rules[k].in, b)
    THEN [ applied |-> TRUE, out |-> apply_output_template(rules[k].out, b) ]
    ELSE TryRules_DirectFirst(b, k + 1)

\* the rule loop for one block, from rule k on: the 4 values to write, or
\* applied = FALSE when the loop falls through
RECURSIVE TryRules(_, _)
TryRules(b, k) ==
    IF k > Len(rules) THEN [ applied |-> FALSE, out |-> b ]
    ELSE LET r == rules[k] IN
         IF match_pattern(r.in, b)
         THEN [ applied |-> TRUE, out |-> apply_output_template(r.out, b) ]
         ELSE IF r.horizontal_reflection /\ match_pattern(r.in, mirror_h(b))
         THEN [ applied |-> TRUE,
                out |-> mirror_h(apply_output_template(r.out, mirror_h(b))) ]
         ELSE TryRules(b, k + 1)

\* variant: the loop counter advances by 1
RECURSIVE Counters_by_one(_, _)
Counters_by_one(b, lim) ==
    IF b < lim THEN << b >> \o Counters_by_one(b + 1, lim) ELSE << >>

\* the values b, b + 2, ... < lim of a loop `for (b = o; b < lim; b += 2)`
RECURSIVE Counters(_, _)
Counters(b, lim) == IF b < lim THEN << b >> \o Counters(b + 2, lim) ELSE << >>

\* indices of the four cells a block anchored at (x0, y0) reads through at()
ReadIdx(x0, y0) ==
    << AtIndex(x0, y0), AtIndex(x0 + 1, y0),
       AtIndex(x0, y0 + 1), AtIndex(x0 + 1, y0 + 1) >>

\* variant: the "+ 1" neighbours are not wrapped
WriteIdx_nowrap(x0, y0) ==
    << y0 * w + x0,
       y0 * w + (x0 + 1),
       (y0 + 1) * w + x0,
       (y0 + 1) * w + (x0 + 1) >>

\* indices of next[] the block anchored at (x0, y0) writes
WriteIdx(x0, y0) ==
    << y0 * w + x0,
       y0 * w + CRem(x0 + 1, w),
       CRem(y0 + 1, h) * w + x0,
       CRem(y0 + 1, h) * w + CRem(x0 + 1, w) >>

\* body of the inner loop for the block at loop counters (bx, by); the
\* block b is read once (its value bound to v) before the rule loop runs
BlockPass(next, bx, by) ==
    LET x0 == CRem(bx, w)
        y0 == CRem(by, h)
        rd == ReadIdx(x0, y0)
        b  == << cells[rd[1]], cells[rd[2]], cells[rd[3]], cells[rd[4]] >>
        t  == CHOOSE r \in { TryRules(v, 1) : v \in { b } } : TRUE
        wr == WriteIdx(x0, y0)
    IN  IF t.applied
        THEN [ [ [ [ next EXCEPT ![wr[1]] = t.out[1] ]
                          EXCEPT ![wr[2]] = t.out[2] ]
                          EXCEPT ![wr[3]] = t.out[3] ]
                          EXCEPT ![wr[4]] = t.out[4] ]
        ELSE next

\* inner loop over the remaining counters bxs of row by
RECURSIVE RowLoop(_, _, _)
RowLoop(next, bxs, by) ==
    IF bxs = << >> THEN next
    ELSE RowLoop(BlockPass(next, Head(bxs), by), Tail(bxs), by)

\* outer loop over the remaining counters bys
RECURSIVE GridLoop(_, _, _)
GridLoop(next, bys, ox) ==
    IF bys = << >> THEN next
    ELSE GridLoop(RowLoop(next, Counters(ox, w + ox), Head(bys)), Tail(bys), ox)

\* variant: the partition never shifts
PhaseOffset_zero(off) == 0

\* ox, oy: 1 when offset is set, else 0
PhaseOffset(off) == IF off THEN 1 ELSE 0

\* variant: the phase flag is left as it is
step_once_keep_phase ==
    /\ built
    /\ LET ox == PhaseOffset(offset)
           oy == PhaseOffset(offset)
       IN  cells' = GridLoop(cells, Counters(oy, h + oy), ox)
    /\ offset' = offset
    /\ pre' = cells
    /\ prephase' = offset
    /\ op' = "step"
    /\ UNCHANGED <<w, h, built, nwrites, probe>>

\* step(), all of it; the step counter is kept by the two actions below
step_once ==
    /\ built
    /\ LET ox == PhaseOffset(offset)
           oy == PhaseOffset(offset)
       IN  cells' = GridLoop(cells, Counters(oy, h + oy), ox)
    /\ offset' = ~offset
    /\ pre' = cells
    /\ prephase' = offset
    /\ op' = "step"
    /\ UNCHANGED <<w, h, built, nwrites, probe>>

\* step(), counted, at most MaxSteps times
step ==
    /\ nsteps < MaxSteps
    /\ step_once
    /\ nsteps' = nsteps + 1

\* step(), not counted, any number of times (the running main loop)
step_free ==
    /\ step_once
    /\ UNCHANGED nsteps

-----------------------------------------------------------------------------
(* clear(), randomize(), writes through at() *)

\* variant: the fill stops one cell short of end()
clear_short ==
    /\ built
    /\ cells' = [ i \in DOMAIN cells |-> IF i + 1 < w * h THEN 0 ELSE cells[i] ]
    /\ pre' = cells
    /\ prephase' = offset
    /\ op' = "clear"
    /\ UNCHANGED <<w, h, offset, built, nsteps, nwrites, probe>>

clear ==
    /\ built
    /\ cells' = [ i \in DOMAIN cells |-> 0 ]
    /\ pre' = cells
    /\ prephase' = offset
    /\ op' = "clear"
    /\ UNCHANGED <<w, h, offset, built, nsteps, nwrites, probe>>

\* The first 36 values d(rng) of std::mt19937 rng(12345) through
\* std::uniform_real_distribution<double>(0, 1) (libstdc++), in thousandths
\* rounded down: d < k/1000 iff the entry is < k.
RngDraws ==
    << 890, 130, 39, 826, 532, 956, 461, 923,
       373, 154, 892, 26, 291, 398, 807, 627,
       907, 556, 839, 50, 806, 930, 364, 690,
       129, 832, 318, 737, 596, 363, 794, 698,
       821, 899, 831, 909 >>

\* variant: a cell that draws "empty" keeps its old value
randomize_keep(fill_prob) ==
    /\ built
    /\ cells' = [ i \in DOMAIN cells |->
                    IF RngDraws[i + 1] < fill_prob THEN 1 ELSE cells[i] ]
    /\ pre' = cells'
    /\ prephase' = offset
    /\ op' = "randomize"
    /\ UNCHANGED <<w, h, offset, built, nsteps, nwrites, probe>>

randomize(fill_prob) ==
    /\ built
    /\ cells' = [ i \in DOMAIN cells |-> IF RngDraws[i + 1] < fill_prob THEN 1 ELSE 0 ]
    /\ pre' = cells'
    /\ prephase' = offset
    /\ op' = "randomize"
    /\ UNCHANGED <<w, h, offset, built, nsteps, nwrites, probe>>

\* sim.at(x, y) = v
Assign(x, y, v) ==
    /\ built
    /\ w > 0 /\ h > 0
    /\ cells' = [ cells EXCEPT ![AtIndex(x, y)] = v ]
    /\ nwrites' = nwrites + 1
    /\ pre' = cells'
    /\ prephase' = offset
    /\ op' = "at"
    /\ UNCHANGED <<w, h, offset, built, nsteps>>

\* a write as main() makes it (coordinates checked by the caller)
WriteAt(x, y, v) ==
    /\ nwrites < MaxWrites
    /\ Assign(x, y, v)
    /\ probe' = << >>

\* a write with arbitrary integer coordinates, recorded in probe
ProbeAt(x, y, v) ==
    /\ nwrites < MaxProbes
    /\ Assign(x, y, v)
    /\ probe' = << x, y >>

-----------------------------------------------------------------------------
(* Specifications *)

\* Margolus(W, H): cells(W*H, 0) throws std::length_error when W*H < 0
\* (the count converts to a huge size_t); otherwise an object exists.
Construct(W, H) ==
    /\ w = W /\ h = H
    /\ built = (W * H >= 0)
    /\ cells = IF W * H >= 0 THEN [ i \in 0 .. W * H - 1 |-> 0 ] ELSE << >>
    /\ offset = FALSE
    /\ nsteps = 0 /\ nwrites = 0
    /\ pre = cells
    /\ prephase = offset
    /\ op = "new"
    /\ probe = << >>

Init == \E a \in CtorArgs : Construct(a[1], a[2])

Next ==
    \/ step
    \/ clear
    \/ \E p \in FillProbs : randomize(p)
    \/ \E x \in 0 .. w - 1, y \in PaintRows, v \in PaintStates : WriteAt(x, y, v)

Spec == Init /\ [][Next]_vars

\* Every 2x2 grid over AnyValues, in either phase, then stepped.
InitAny ==
    /\ w = 2 /\ h = 2 /\ built = TRUE
    /\ cells \in [ 0 .. 3 -> AnyValues ]
    /\ offset \in BOOLEAN
    /\ nsteps = 0 /\ nwrites = 0
    /\ pre = cells
    /\ prephase = offset
    /\ op = "new"
    /\ probe = << >>

NextAny == step

SpecAny == InitAny /\ [][NextAny]_vars

\* Every 4x2 grid over States (two blocks side by side), in either phase,
\* then stepped once.
InitPair ==
    /\ w = 4 /\ h = 2 /\ built = TRUE
    /\ cells \in [ 0 .. 7 -> States ]
    /\ offset \in BOOLEAN
    /\ nsteps = 0 /\ nwrites = 0
    /\ pre = cells
    /\ prephase = offset
    /\ op = "new"
    /\ probe = << >>

NextPair == op = "new" /\ step

SpecPair == InitPair /\ [][NextPair]_vars

\* step(), clear() and randomize(), without writes
NextOps ==
    \/ step
    \/ clear
    \/ \E p \in FillProbs : randomize(p)

\* Grids of the even sizes up to 6x6, stepped, cleared and randomized.
EvenSizes == { 2, 4, 6 }

InitSizes == \E W \in EvenSizes, H \in EvenSizes : Construct(W, H)

SpecSizes == InitSizes /\ [][NextOps]_vars

\* The running simulation on a 2x4 grid without sources: every grid whose
\* last row is ground (in either phase, which covers the other rows by the
\* diagonal shift of the torus), and every grid holding a single sand cell
\* and nothing else, stepped for ever.
InitSettle ==
    /\ w = 2 /\ h = 4 /\ built = TRUE
    /\ cells \in [ 0 .. 7 -> { 0, 1, 2 } ]
    /\ \/ cells[6] = 2 /\ cells[7] = 2
       \/ \E i \in 0 .. 7 : cells = [ j \in 0 .. 7 |-> IF j = i THEN 1 ELSE 0 ]
    /\ offset \in BOOLEAN
    /\ nsteps = 0 /\ nwrites = 0
    /\ pre = cells
    /\ prephase = offset
    /\ op = "new"
    /\ probe = << >>

NextSettle == step_free

\* the main loop steps as long as the window is open
SpecSettle == InitSettle /\ [][NextSettle]_vars /\ WF_vars(step_free)

\* Every 2x2 grid over AnyValues, then stepped, cleared and randomized.
SpecOps == InitAny /\ [][NextOps]_vars

\* Grids of every size up to MaxDim x MaxDim, written through at() with
\* coordinates inside and outside the grid.
InitAt == \E W \in 1 .. MaxDim, H \in 1 .. MaxDim : Construct(W, H)

NextAt ==
    \E x \in -MaxCoord .. MaxCoord, y \in -MaxCoord .. MaxCoord, v \in { 1, 2 } :
        ProbeAt(x, y, v)

SpecAt == InitAt /\ [][NextAt]_vars

-----------------------------------------------------------------------------
(* Vocabulary of the properties *)

\* row-major index of the cell in column x, row y (0 <= x < w, 0 <= y < h)
Idx(x, y) == y * w + x

\* anchors of the partition of phase ph on a grid of even size
PartitionAnchors(ph) ==
    LET o == IF ph THEN 1 ELSE 0
    IN  { a \in (0 .. w - 1) \X (0 .. h - 1) : a[1] % 2 = o /\ a[2] % 2 = o }

\* the block of grid g anchored at a, in TL, TR, BL, BR order
BlockAt(g, a) ==
    << g[Idx(a[1], a[2])],
       g[Idx((a[1] + 1) % w, a[2])],
       g[Idx(a[1], (a[2] + 1) % h)],
       g[Idx((a[1] + 1) % w, (a[2] + 1) % h)] >>

Range(f) == { f[i] : i \in DOMAIN f }

\* the last operation was a step()
Stepped == op = "step"

\* rule k matches b directly / on the mirror image
Direct(k, b) == match_pattern(rules[k].in, b)
Mirrored(k, b) ==
    rules[k].horizontal_reflection /\ match_pattern(rules[k].in, mirror_h(b))

-----------------------------------------------------------------------------
(* C1 *)

C1_Before == [ i \in 0 .. 15 |-> IF i \in { 0, 1 } THEN 1 ELSE 0 ]
C1_After  == [ i \in 0 .. 15 |-> IF i \in { 4, 5 } THEN 1 ELSE 0 ]

\* C1: on a 4x4 grid in phase 0 whose only non-zero cells are (0,0) = 1 and
\* (1,0) = 1, one step() leaves (0,1) = 1, (1,1) = 1 and every other cell 0.
C1_SymmetricFall ==
    (Stepped /\ w = 4 /\ h = 4 /\ ~prephase /\ pre = C1_Before)
        => cells = C1_After

C1_Witness ==
    Stepped /\ w = 4 /\ h = 4 /\ ~prephase /\ pre = C1_Before /\ cells = C1_After

-----------------------------------------------------------------------------
(* C2 *)

\* C2 as stated: a block (0,1,0,2) of the current partition holds (1,0,0,2)
\* after one step().
C2_AsStated ==
    Stepped => \A a \in PartitionAnchors(prephase) :
        BlockAt(pre, a) = << 0, 1, 0, 2 >> => BlockAt(cells, a) = << 1, 0, 0, 2 >>

\* C2, amended: a block (0,1,0,2) of the current partition holds (0,0,1,2)
\* after one step(): its mirror image (1,0,2,0) does not match (1,*,0,*)
\* (slot 2 is 2), it matches (1,0,*,0), whose output is mirrored back.
C2_MirroredSlide ==
    Stepped => \A a \in PartitionAnchors(prephase) :
        BlockAt(pre, a) = << 0, 1, 0, 2 >>
            => /\ BlockAt(cells, a) = << 0, 0, 1, 2 >>
               /\ ~Mirrored(2, BlockAt(pre, a))
               /\ Mirrored(3, BlockAt(pre, a))

C2_Witness ==
    /\ Stepped /\ w = 4 /\ h = 4
    /\ \E a \in PartitionAnchors(prephase) :
        BlockAt(pre, a) = << 0, 1, 0, 2 >> /\ BlockAt(cells, a) = << 0, 0, 1, 2 >>

-----------------------------------------------------------------------------
(* C3 *)

\* rule k matches b in either way
C3_Matches(k, b) == Direct(k, b) \/ Mirrored(k, b)

\* the rewrite of the lowest-indexed matching rule, direct before mirrored
C3_Expected(b) ==
    IF \E k \in 1 .. Len(rules) : C3_Matches(k, b)
    THEN LET k == CHOOSE k \in 1 .. Len(rules) :
                    C3_Matches(k, b) /\ \A j \in 1 .. k - 1 : ~C3_Matches(j, b)
         IN  IF Direct(k, b)
             THEN apply_output_template(rules[k].out, b)
             ELSE mirror_h(apply_output_template(rules[k].out, mirror_h(b)))
    ELSE b

\* C3: every block is rewritten by the lowest-indexed rule that matches it
\* directly or (mirror-enabled) on its mirror image; within a rule the direct
\* match comes first; a mirrored match writes mirror(instantiate(out,
\* mirror(block))).  (0,1,0,0) becomes (0,0,0,1) and (1,0,0,0) becomes (0,0,1,0).
C3_FirstMatchWins ==
    Stepped => \A a \in PartitionAnchors(prephase) :
        LET b == BlockAt(pre, a)
            c == BlockAt(cells, a)
        IN  /\ c = C3_Expected(b)
            /\ b = << 0, 1, 0, 0 >> => c = << 0, 0, 0, 1 >>
            /\ b = << 1, 0, 0, 0 >> => c = << 0, 0, 1, 0 >>

\* a block that rule 2 matches mirrored and rule 4 matches directly
C3_Witness ==
    /\ Stepped
    /\ \E a \in PartitionAnchors(prephase) :
        /\ BlockAt(pre, a) = << 3, 1, 0, 0 >>
        /\ Mirrored(2, BlockAt(pre, a)) /\ Direct(4, BlockAt(pre, a))
        /\ BlockAt(cells, a) = << 3, 0, 0, 1 >>

-----------------------------------------------------------------------------
(* C4 *)

C4_NoRule(b) == \A k \in 1 .. Len(rules) : ~Direct(k, b) /\ ~Mirrored(k, b)

\* C4: a block of the current partition that no rule matches, directly or
\* mirrored, holds the same four values after step(); so does (3,3,3,3).
C4_UnmatchedUnchanged ==
    Stepped => \A a \in PartitionAnchors(prephase) :
        /\ C4_NoRule(BlockAt(pre, a)) => BlockAt(cells, a) = BlockAt(pre, a)
        /\ BlockAt(pre, a) = << 3, 3, 3, 3 >> => BlockAt(cells, a) = << 3, 3, 3, 3 >>

C4_Witness ==
    /\ Stepped
    /\ \E a \in PartitionAnchors(prephase) :
        /\ BlockAt(pre, a) = << 3, 3, 3, 3 >>
        /\ C4_NoRule(BlockAt(pre, a))
        /\ BlockAt(cells, a) = << 3, 3, 3, 3 >>

-----------------------------------------------------------------------------
(* C5 *)

\* C5: after any interleaving of step(), clear(), randomize() and writes,
\* offset = (initial phase FALSE) XOR (number of step() calls is odd).
C5_PhaseParity == built => (offset <=> (nsteps % 2 = 1))

C5_Witness ==
    built /\ nsteps = 3 /\ offset /\ nwrites > 0 /\ op = "randomize"

-----------------------------------------------------------------------------
(* C6 *)

C6_Coords == -MaxCoord .. MaxCoord

\* C6: for W, H > 0 and all integers x, y, at(x, y) is the cell at index
\* (y mod H) * W + (x mod W) with the non-negative modulo, an index in
\* 0 .. W*H-1; at(-1, -1) is the cell at(W-1, H-1).
C6_ToroidalIndex ==
    (built /\ w > 0 /\ h > 0) =>
        /\ \A x \in C6_Coords, y \in C6_Coords :
            /\ AtIndex(x, y) = (y % h) * w + (x % w)
            /\ AtIndex(x, y) \in 0 .. w * h - 1
        /\ AtIndex(-1, -1) = AtIndex(w - 1, h - 1)
        /\ probe # << >> => cells[(probe[2] % h) * w + (probe[1] % w)] # 0

C6_Witness ==
    /\ probe = << -1, -1 >> /\ w = 3 /\ h = 2
    /\ cells = [ i \in 0 .. 5 |-> IF i = 5 THEN 1 ELSE 0 ]

-----------------------------------------------------------------------------
(* C7 *)

\* C7: with writes in {0,1,2,3}, every cell stays in {0,1,2,3} under
\* step(), clear() and randomize(); every value present after step() was
\* present before it or is one of the rule outputs 0, 1, 3.
C7_DomainClosed ==
    /\ \A i \in DOMAIN cells : cells[i] \in States
    /\ Stepped => Range(cells) \subseteq (Range(pre) \cup { 0, 1, 3 })

\* a step that rewrote a block through wildcard slots holding 2 and 3
C7_Witness ==
    /\ Stepped /\ cells # pre
    /\ \E a \in PartitionAnchors(prephase) :
        /\ BlockAt(pre, a) = << 1, 2, 0, 3 >>
        /\ BlockAt(cells, a) = << 0, 2, 1, 3 >>

-----------------------------------------------------------------------------
(* C8 *)

\* C8: constructing the grid with W <= 0 or H <= 0 fails, so no object on
\* which step() or at() can run exists.
C8_RejectsNonPositive == (w <= 0 \/ h <= 0) => ~built

-----------------------------------------------------------------------------
(* C10 *)

\* anchors (x0, y0) the loops of step() visit in phase 1
C10_Visited ==
    { << CRem(bx, w), CRem(by, h) >> :
        bx \in Range(Counters(PhaseOffset(TRUE), w + PhaseOffset(TRUE))),
        by \in Range(Counters(PhaseOffset(TRUE), h + PhaseOffset(TRUE))) }

\* anchors of the visited blocks that write cell (x, y)
C10_AnchorsOf(x, y) ==
    { a \in C10_Visited : Idx(x, y) \in Range(WriteIdx(a[1], a[2])) }

\* C10: on a 4x4 grid in phase 1 the cells (0,0), (1,0), (0,1), (1,1) lie
\* in the blocks anchored at (3,3), (1,3), (3,1), (1,1); with (0,0) = 1,
\* (1,0) = 1 and all else 0, one step() from phase 1 changes no cell.
C10_OffsetPartition ==
    (built /\ w = 4 /\ h = 4) =>
        /\ C10_AnchorsOf(0, 0) = { << 3, 3 >> }
        /\ C10_AnchorsOf(1, 0) = { << 1, 3 >> }
        /\ C10_AnchorsOf(0, 1) = { << 3, 1 >> }
        /\ C10_AnchorsOf(1, 1) = { << 1, 1 >> }
        /\ (Stepped /\ prephase /\ pre = C1_Before) => cells = pre

C10_Witness ==
    /\ Stepped /\ w = 4 /\ h = 4 /\ prephase /\ pre = C1_Before
    /\ cells = C1_Before

-----------------------------------------------------------------------------
(* C11 *)

\* cells that randomize(p) fills, read off a run of the C++ code
C11_Filled(p) ==
    CASE p = 90  -> { 2, 11 }
      [] p = 500 -> { 1, 2, 6, 8, 9, 11, 12, 13 }

C11_Grid(p) == [ i \in 0 .. w * h - 1 |-> IF i \in C11_Filled(p) THEN 1 ELSE 0 ]

\* C11: the grid after randomize(p) is the same for the same p (the seed is
\* fixed), whatever the grid held, whatever the phase and however many
\* step() and randomize() calls came before; every cell is then 0 or 1.
C11_Reproducible ==
    op = "randomize" =>
        /\ \E p \in FillProbs : cells = C11_Grid(p)
        /\ \A i \in DOMAIN cells : cells[i] \in { 0, 1 }

C11_Witness ==
    /\ op = "randomize" /\ w = 4 /\ h = 4
    /\ nsteps = 3 /\ offset /\ nwrites = 2
    /\ cells = C11_Grid(500)

-----------------------------------------------------------------------------
(* C12 *)

\* C12: after clear() every one of the W*H cells is 0, whatever the grid
\* held before (2, 3 and out-of-domain values included).
C12_ClearZeroes ==
    op = "clear" =>
        /\ DOMAIN cells = 0 .. w * h - 1
        /\ \A i \in 0 .. w * h - 1 : cells[i] = 0

C12_Witness ==
    /\ op = "clear"
    /\ pre = [ i \in 0 .. 3 |-> << 2, 3, 7, -1 >>[i + 1] ]
    /\ \A i \in 0 .. 3 : cells[i] = 0

-----------------------------------------------------------------------------
(* C13 *)

\* loop counters (bx, by) of the blocks step() visits when ox = oy = o
C13_Blocks(o) ==
    { << bx, by >> : bx \in Range(Counters(o, w + o)),
                     by \in Range(Counters(o, h + o)) }

\* every order in which the blocks of S can be visited
RECURSIVE C13_Orders(_)
C13_Orders(S) ==
    IF S = {} THEN { << >> }
    ELSE UNION { { << x >> \o s : s \in C13_Orders(S \ { x }) } : x \in S }

\* the loop body applied to the blocks in the order s, starting from next
RECURSIVE C13_Visit(_, _)
C13_Visit(next, s) ==
    IF s = << >> THEN next
    ELSE C13_Visit(BlockPass(next, s[1][1], s[1][2]), Tail(s))

\* C13: for even W and H the grid after step() is the grid in which every
\* block of the partition holds the rewrite of its pre-step values, and
\* from every grid, visiting the blocks in any other order gives the grid
\* that step() gives.
C13_DoubleBuffer ==
    /\ Stepped => \A a \in PartitionAnchors(prephase) :
           BlockAt(cells, a) = TryRules(BlockAt(pre, a), 1).out
    /\ ~Stepped =>
           LET o == PhaseOffset(offset)
               r == GridLoop(cells, Counters(o, h + o), o)
           IN  \A s \in C13_Orders(C13_Blocks(o)) : C13_Visit(cells, s) = r

\* a step in the offset phase that rewrote both blocks
C13_Witness ==
    /\ Stepped /\ prephase
    /\ \A a \in PartitionAnchors(prephase) : BlockAt(cells, a) # BlockAt(pre, a)
    /\ Cardinality(C13_Orders(C13_Blocks(1))) = 2

-----------------------------------------------------------------------------
(* C14 *)

\* the 2x2 block of cell indices anchored at (x0, y0), wrapped at the edges
C14_Square(x0, y0) ==
    { Idx(x0, y0), Idx((x0 + 1) % w, y0),
      Idx(x0, (y0 + 1) % h), Idx((x0 + 1) % w, (y0 + 1) % h) }

\* the sets of cells read and written by the block at loop counters c
C14_Reads(c) == Range(ReadIdx(CRem(c[1], w), CRem(c[2], h)))
C14_Writes(c) == Range(WriteIdx(CRem(c[1], w), CRem(c[2], h)))

\* C14: for even W, H > 0 and both phases the blocks one step() visits are
\* W*H/4 pairwise disjoint 2x2 blocks that cover every cell exactly once,
\* and each block writes the four positions it read.
C14_ExactPartition ==
    (built /\ w > 0 /\ h > 0 /\ w % 2 = 0 /\ h % 2 = 0) =>
        \A o \in { 0, 1 } :
            LET B == C13_Blocks(o)
            IN  /\ Cardinality(B) * 4 = w * h
                /\ \A c \in B :
                    /\ C14_Reads(c) = C14_Square(CRem(c[1], w), CRem(c[2], h))
                    /\ Cardinality(C14_Reads(c)) = 4
                    /\ ReadIdx(CRem(c[1], w), CRem(c[2], h))
                         = WriteIdx(CRem(c[1], w), CRem(c[2], h))
                    /\ CRem(c[1], w) % 2 = o /\ CRem(c[2], h) % 2 = o
                /\ \A c \in B, d \in B :
                    c # d => C14_Reads(c) \cap C14_Writes(d) = {}
                /\ UNION { C14_Writes(c) : c \in B } = 0 .. w * h - 1

\* a step of the offset partition of a 4x2 grid that moved sand across
\* the wrapped edge
C14_Witness ==
    /\ Stepped /\ prephase /\ w = 4 /\ h = 2
    /\ C13_Blocks(1) = { << 1, 1 >>, << 3, 1 >> }
    /\ C14_Writes(<< 3, 1 >>) = { 7, 4, 3, 0 }
    /\ cells # pre

-----------------------------------------------------------------------------
(* C15 *)

\* C15: step() changes no cell whose value is not 0 or 1 (ground, source,
\* out-of-domain values), in both phases, also in blocks a rule matches
\* through a wildcard slot; the cells holding 2 and the cells holding 3 are
\* the same before and after.
C15_OnlySandMoves ==
    Stepped => \A i \in DOMAIN pre :
        /\ pre[i] \notin { 0, 1 } => cells[i] = pre[i]
        /\ cells[i] = 2 <=> pre[i] = 2
        /\ cells[i] = 3 <=> pre[i] = 3

\* sand fell past the out-of-domain values 7 and -1 in the wildcard slots
C15_Witness ==
    /\ Stepped /\ ~prephase
    /\ pre   = [ i \in 0 .. 3 |-> << 1, 7, 0, -1 >>[i + 1] ]
    /\ cells = [ i \in 0 .. 3 |-> << 0, 7, 1, -1 >>[i + 1] ]

-----------------------------------------------------------------------------
(* C16 *)

\* number of cells of grid g holding v
C16_Count(g, v) == Cardinality({ i \in DOMAIN g : g[i] = v })

\* the source rule (rule 4) is the first rule that matches b
C16_SourceFires(b) ==
    C3_Matches(4, b) /\ \A j \in 1 .. 3 : ~C3_Matches(j, b)

\* C16: for even W and H the number of sand cells never decreases under
\* step(); it is unchanged when no cell is a source; it grows by exactly
\* one for each block in which the source rule fires.
C16_SandConserved ==
    Stepped =>
        LET before == C16_Count(pre, 1)
            after  == C16_Count(cells, 1)
            fired  == { a \in PartitionAnchors(prephase) :
                            C16_SourceFires(BlockAt(pre, a)) }
        IN  /\ after >= before
            /\ C16_Count(pre, 3) = 0 => after = before
            /\ after = before + Cardinality(fired)

\* both blocks of the 4x2 grid held a firing source, and sand moved too
C16_Witness ==
    /\ Stepped
    /\ C16_Count(cells, 1) = C16_Count(pre, 1) + 2
    /\ C16_Count(pre, 1) > 0
    /\ \A a \in PartitionAnchors(prephase) : C16_SourceFires(BlockAt(pre, a))

-----------------------------------------------------------------------------
(* C17 *)

\* the block rewrite of step(): what the rule loop writes for block b
C17_F(b) == TryRules(b, 1).out

C17_InDomain(b) == \A i \in 1 .. 4 : b[i] \in States

\* C17 as stated: for every block b over {0,1,2,3}, (3,3,0,0) included,
\* F(mirror_h(b)) = mirror_h(F(b)).
C17_AsStated ==
    Stepped => \A a \in PartitionAnchors(prephase) :
        LET b == BlockAt(pre, a)
        IN  C17_InDomain(b) => C17_F(mirror_h(b)) = mirror_h(BlockAt(cells, a))

\* C17, amended: F(mirror_h(b)) = mirror_h(F(b)) for every block b over
\* {0,1,2,3} except (3,3,0,0); that block is its own mirror image and
\* matches the source rule directly, so F gives (3,3,1,0), which is not
\* its own mirror image (3,3,0,1).
C17_EquivariantButOne ==
    Stepped => \A a \in PartitionAnchors(prephase) :
        LET b == BlockAt(pre, a)
            c == BlockAt(cells, a)
        IN  /\ (C17_InDomain(b) /\ b # << 3, 3, 0, 0 >>)
                => C17_F(mirror_h(b)) = mirror_h(c)
            /\ b = << 3, 3, 0, 0 >>
                => /\ c = << 3, 3, 1, 0 >>
                   /\ C17_F(mirror_h(b)) = << 3, 3, 1, 0 >>
                   /\ mirror_h(c) = << 3, 3, 0, 1 >>

C17_Witness ==
    /\ Stepped
    /\ \E a \in PartitionAnchors(prephase) :
        /\ BlockAt(pre, a) = << 3, 3, 0, 0 >>
        /\ Direct(4, BlockAt(pre, a)) /\ Mirrored(4, BlockAt(pre, a))
        /\ BlockAt(cells, a) = << 3, 3, 1, 0 >>

-----------------------------------------------------------------------------
(* C18 *)

\* a whole row of the grid is ground and no cell is a source
C18_GroundRow ==
    /\ \E r \in 0 .. h - 1 : \A x \in 0 .. w - 1 : cells[Idx(x, r)] = 2
    /\ \A i \in DOMAIN cells : cells[i] # 3

\* one sand cell on an otherwise empty torus
C18_LoneSand ==
    \E i \in DOMAIN cells :
        cells = [ j \in DOMAIN cells |-> IF j = i THEN 1 ELSE 0 ]

\* a step() changes nothing, in either phase
C18_Settled ==
    \A ph \in BOOLEAN :
        LET o == PhaseOffset(ph)
        IN  GridLoop(cells, Counters(o, h + o), o) = cells

\* C18: with a whole row of ground and no source, repeated step() reaches
\* a grid that no step() changes in either phase; a single sand cell on an
\* otherwise empty torus is never such a grid (it keeps moving).
C18_Settles ==
    /\ C18_GroundRow ~> C18_Settled
    /\ [](C18_LoneSand => ~C18_Settled)

\* sand came to rest on the ground row by a step that moved it
C18_Witness ==
    /\ Stepped /\ cells # pre
    /\ C18_GroundRow /\ C18_Settled
    /\ \E i \in DOMAIN cells : cells[i] = 1

-----------------------------------------------------------------------------
(* C19 *)

\* slot i of the mirror image is slot C19_Swap[i] of the block (slots
\* 0<->1 and 2<->3 of the source, counted from 1 here)
C19_Swap == << 2, 1, 4, 3 >>

\* the first rule that matches block b on its mirror image only, 0 if the
\* first match is a direct one or there is none
C19_MirrorRule(b) ==
    LET hit == { k \in DOMAIN rules : Direct(k, b) \/ Mirrored(k, b) }
    IN  IF hit = { } THEN 0
        ELSE LET k == CHOOSE m \in hit : \A n \in hit : m <= n
             IN  IF Direct(k, b) THEN 0 ELSE k

\* C19: mirror_h swaps slots 0<->1 and 2<->3 and is an involution,
\* mirror_h(mirror_h(b)) = b for every block b, so a block rewritten
\* through a mirrored match gets the rule's output for slot i's mirror
\* slot written to slot i (the original orientation).
C19_MirrorInvolution ==
    \A a \in PartitionAnchors(prephase) :
        LET b == BlockAt(pre, a)
            c == BlockAt(cells, a)
            k == C19_MirrorRule(b)
        IN  /\ \A i \in 1 .. 4 : mirror_h(b)[i] = b[C19_Swap[i]]
            /\ mirror_h(mirror_h(b)) = b
            /\ mirror_h(mirror_h(c)) = c
            /\ (Stepped /\ k # 0) =>
                    \A i \in 1 .. 4 :
                        c[i] = IF rules[k].out[C19_Swap[i]] = WILD
                               THEN b[i]
                               ELSE rules[k].out[C19_Swap[i]]

\* (0,1,0,0) matched (1,*,0,*) on its mirror image (1,0,0,0) and was
\* written back as (0,0,0,1)
C19_Witness ==
    /\ Stepped
    /\ \E a \in PartitionAnchors(prephase) :
        /\ BlockAt(pre, a) = << 0, 1, 0, 0 >>
        /\ C19_MirrorRule(BlockAt(pre, a)) = 2
        /\ BlockAt(cells, a) = << 0, 0, 0, 1 >>

====
